---- MODULE Spec2Model ----
(***************************************************************************)
(* State-machine model of the SH1107 display controller chip (main.c).     *)
(*                                                                         *)
(* chip        the sh1107_state_t record allocated by chip_init, together  *)
(*             with the host-side state of its one-shot update timer and   *)
(*             three observation counters (requests, arms, coalesced)      *)
(* framebuffer the contents of the host pixel sink, one entry per pixel    *)
(* last_op     which path of which callback ran last                       *)
(* boot        the memory image malloc gave chip_init, and the bus         *)
(*             transactions the host ran before the first state            *)
(* sent        the bytes the host wrote since (256 marks a connect), in    *)
(*             the runs that log them                                      *)
(* events      the number of bus events (connects, writes) delivered since *)
(***************************************************************************)
EXTENDS Integers, Sequences, FiniteSets, TLC

VARIABLES chip, framebuffer, last_op, boot, sent, events

vars == <<chip, framebuffer, last_op, boot, sent, events>>

(***************************************************************************)
(* Program constants                                                       *)
(***************************************************************************)
SH1107_CONTROL_CO == 128
SH1107_CONTROL_DC == 64

CMD_SET_PAGE_ADDR_MODE == 32
CMD_SET_VERTICAL_ADDR_MODE == 33
CMD_SET_CONTRAST == 129
CMD_SEG_REMAP_OFF == 160
CMD_SEG_REMAP_ON == 161
CMD_DISPLAY_ALL_ON_RESUME == 164
CMD_DISPLAY_ALL_ON == 165
CMD_NORMAL_DISPLAY == 166
CMD_INVERT_DISPLAY == 167
CMD_SET_MULTIPLEX == 168
CMD_DCDC == 173
CMD_DISPLAY_OFF == 174
CMD_DISPLAY_ON == 175
CMD_COM_SCAN_INC == 192
CMD_COM_SCAN_DEC == 200
CMD_SET_DISPLAY_OFFSET == 211
CMD_SET_DISPLAY_CLOCK_DIV == 213
CMD_SET_PRECHARGE == 217
CMD_SET_COM_PINS == 218
CMD_SET_VCOM_DESELECT == 219
CMD_SET_DISP_START_LINE == 220
CMD_NOP == 227

\* state->width, state->height, state->x_offset: set once by sh1107_reset
width == 128
height == 128
x_offset == 96

\* sizeof(pixels), sizeof(current_command)
PixelBytes == (128 * 128) \div 8
CommandBufferSize == 8

Byte == 0..255

(***************************************************************************)
(* 8-bit integer arithmetic                                                *)
(***************************************************************************)
RECURSIVE BitAndN(_, _, _)
BitAndN(a, b, n) ==
  IF n = 0 THEN 0
  ELSE (IF a % 2 = 1 /\ b % 2 = 1 THEN 1 ELSE 0) + 2 * BitAndN(a \div 2, b \div 2, n - 1)

RECURSIVE BitOrN(_, _, _)
BitOrN(a, b, n) ==
  IF n = 0 THEN 0
  ELSE (IF a % 2 = 1 \/ b % 2 = 1 THEN 1 ELSE 0) + 2 * BitOrN(a \div 2, b \div 2, n - 1)

\* a & b, a | b on values that fit 16 bits
BitAnd(a, b) == BitAndN(a, b, 16)
BitOr(a, b) == BitOrN(a, b, 16)
ShiftLeft(a, k) == a * (2 ^ k)
ShiftRight(a, k) == a \div (2 ^ k)

\* (uint8_t) v
U8(v) == v % 256

\* 2^32 mod m, for m < 65536 (TLC's integers are 32 bits wide)
Pow32Mod(m) == ((65536 % m) * (65536 % m)) % m

\* ((uint32_t) v) % m for an integer v in (-2^32, 2^31)
U32Mod(v, m) == IF v >= 0 THEN v % m ELSE ((v % m) + Pow32Mod(m)) % m

(***************************************************************************)
(* multi_byte_commands: the parameter count of each opcode.  The array has *)
(* CMD_SET_DISP_START_LINE + 1 entries; reading a higher index reads past  *)
(* its end and yields whatever byte the build placed there.                *)
(***************************************************************************)
MultiByteOpcodes ==
  { CMD_SET_CONTRAST, CMD_SET_MULTIPLEX, CMD_DCDC, CMD_SET_DISPLAY_OFFSET,
    CMD_SET_DISPLAY_CLOCK_DIV, CMD_SET_PRECHARGE, CMD_SET_COM_PINS,
    CMD_SET_VCOM_DESELECT, CMD_SET_DISP_START_LINE }

multi_byte_commands_len == CMD_SET_DISP_START_LINE + 1

\* The bytes an out-of-bounds read of the table is taken to return
OutOfBoundsBytes == {0, 1, 8, 255}

multi_byte_commands(value) ==
  IF value < multi_byte_commands_len
  THEN {IF value \in MultiByteOpcodes THEN 1 ELSE 0}
  ELSE OutOfBoundsBytes

(***************************************************************************)
(* sh1107_reset on a block fresh from malloc: the fields the reset does    *)
(* not assign keep whatever the block held.                                *)
(***************************************************************************)
PixelImage(kind) ==
  [i \in 0..(PixelBytes - 1) |->
     CASE kind = "zero" -> 0
       [] kind = "ones" -> 255
       [] OTHER -> (i * 37 + 11) % 256]

ZeroImage ==
  [display_on |-> FALSE, segment_remap |-> FALSE, control_byte |-> FALSE,
   continuous_mode |-> FALSE, command_mode |-> FALSE,
   current_command_length |-> 0, fill |-> 0, pix |-> "zero"]

UninitImages ==
  { [display_on |-> FALSE, segment_remap |-> FALSE, control_byte |-> FALSE,
     continuous_mode |-> FALSE, command_mode |-> FALSE,
     current_command_length |-> 0, fill |-> 0, pix |-> "zero"],
    [display_on |-> TRUE, segment_remap |-> TRUE, control_byte |-> TRUE,
     continuous_mode |-> TRUE, command_mode |-> TRUE,
     current_command_length |-> 255, fill |-> 255, pix |-> "ones"],
    [display_on |-> TRUE, segment_remap |-> FALSE, control_byte |-> FALSE,
     continuous_mode |-> TRUE, command_mode |-> FALSE,
     current_command_length |-> 1, fill |-> 165, pix |-> "mixed"],
    [display_on |-> FALSE, segment_remap |-> TRUE, control_byte |-> TRUE,
     continuous_mode |-> FALSE, command_mode |-> TRUE,
     current_command_length |-> 9, fill |-> 90, pix |-> "mixed"] }

\* The images with the display off
DarkImages == {u \in UninitImages : ~u.display_on}

sh1107_reset(u) ==
  [ pixels |-> PixelImage(u.pix),
    update_timer |-> FALSE,
    display_on |-> u.display_on,
    updated |-> FALSE,
    contrast |-> 127,
    invert |-> FALSE,
    reverse_rows |-> FALSE,
    segment_remap |-> u.segment_remap,
    clock_divider |-> 1,
    multiplex_ratio |-> 63,
    phase1 |-> 2,
    phase2 |-> 2,
    active_column |-> 0,
    active_page |-> 0,
    memory_mode |-> CMD_SET_PAGE_ADDR_MODE,
    start_line |-> 0,
    control_byte |-> u.control_byte,
    continuous_mode |-> u.continuous_mode,
    command_mode |-> u.command_mode,
    current_command_index |-> 0,
    current_command_length |-> u.current_command_length,
    current_command |-> [i \in 0..(CommandBufferSize - 1) |-> u.fill],
    requests |-> 0,
    arms |-> 0,
    coalesced |-> 0 ]

\* framebuffer_init: the host's pixel sink, dark until first written
framebuffer_init == [y \in 0..(height - 1) |-> [x \in 0..(width - 1) |-> FALSE]]

(***************************************************************************)
(* sh1107_update_buffer: the frame written to the pixel sink.  TRUE is the *)
(* pixel value 0xffffffff, FALSE is 0.                                     *)
(***************************************************************************)
VirtualY(reverse_rows, start_line, y) ==
  LET scroll_y == y + start_line
  IN U32Mod(IF reverse_rows THEN height - 1 - scroll_y ELSE scroll_y, width)

\* C5 mutant: the panel column offset is left out
PixIndex_nooffset(virtual_y, x) == (virtual_y \div 8) * width + (x % width)

PixIndex(virtual_y, x) ==
  (virtual_y \div 8) * width + ((x + x_offset + width) % width)

update_buffer_row(pixels, invert, display_on, reverse_rows, start_line, y) ==
  LET virtual_y == VirtualY(reverse_rows, start_line, y)
      mask == ShiftLeft(1, virtual_y % 8)
  IN [x \in 0..(width - 1) |->
        display_on /\ (IF (pixels[PixIndex(virtual_y, x)] \div mask) % 2 = 1
                       THEN ~invert ELSE invert)]

sh1107_update_buffer(s) ==
  LET pixels == s.pixels
      invert == s.invert
      display_on == s.display_on
      reverse_rows == s.reverse_rows
      start_line == s.start_line
  IN [y \in 0..(height - 1) |->
        update_buffer_row(pixels, invert, display_on, reverse_rows, start_line, y)]

(***************************************************************************)
(* sh1107_schedule_update                                                  *)
(***************************************************************************)
\* C4 mutant: the timer is started on every request
sh1107_schedule_update_always(s) ==
  [s EXCEPT !.requests = @ + 1, !.updated = TRUE, !.update_timer = TRUE,
            !.arms = @ + 1]

\* C18 mutant: the flag is set but the timer is not started
sh1107_schedule_update_unarmed(s) ==
  [s EXCEPT !.requests = @ + 1, !.updated = TRUE]

sh1107_schedule_update(s) ==
  LET r == [s EXCEPT !.requests = @ + 1]
  IN IF ~r.updated
     THEN [r EXCEPT !.updated = TRUE, !.update_timer = TRUE, !.arms = @ + 1]
     ELSE r

(***************************************************************************)
(* sh1107_process_command                                                  *)
(***************************************************************************)
NotImplementedOpcodes ==
  { CMD_DISPLAY_ALL_ON_RESUME, CMD_DISPLAY_ALL_ON, CMD_SET_MULTIPLEX,
    CMD_SET_DISPLAY_OFFSET, CMD_SET_COM_PINS, CMD_SET_VCOM_DESELECT }

\* The cases of the switch: the state after the case and its auto_update flag
\* C10 mutant: the normal-display command does not clear invert
normal_display_keep(s) == <<s, TRUE>>

normal_display(s) == <<[s EXCEPT !.invert = FALSE], TRUE>>

\* C13 mutant: the invert-display command does not set auto_update
invert_display_silent(s) == <<[s EXCEPT !.invert = TRUE], FALSE>>

invert_display(s) == <<[s EXCEPT !.invert = TRUE], TRUE>>

\* C9 mutant: a not-implemented opcode stores its parameter and asks for a
\* redraw
not_implemented_stored(s) ==
  <<[s EXCEPT !.multiplex_ratio = s.current_command[1]], TRUE>>

not_implemented(s) == <<s, FALSE>>

\* The opcodes some case or range of the switch handles
InterpretedOpcodes ==
  { CMD_SET_PAGE_ADDR_MODE, CMD_SET_VERTICAL_ADDR_MODE, CMD_SET_CONTRAST,
    CMD_SEG_REMAP_OFF, CMD_SEG_REMAP_ON, CMD_NORMAL_DISPLAY, CMD_INVERT_DISPLAY,
    CMD_DISPLAY_OFF, CMD_DISPLAY_ON, CMD_COM_SCAN_INC, CMD_COM_SCAN_DEC,
    CMD_SET_DISPLAY_CLOCK_DIV, CMD_SET_PRECHARGE, CMD_SET_DISP_START_LINE,
    CMD_NOP } \cup NotImplementedOpcodes \cup (0..23) \cup (176..192)

\* The opcodes whose case sets auto_update
AutoUpdateOpcodes ==
  { CMD_SET_CONTRAST, CMD_SEG_REMAP_OFF, CMD_SEG_REMAP_ON, CMD_NORMAL_DISPLAY,
    CMD_INVERT_DISPLAY, CMD_COM_SCAN_INC, CMD_COM_SCAN_DEC,
    CMD_SET_DISP_START_LINE } \cup (176..191)

\* The opcodes whose case assigns a register or nothing and leaves
\* auto_update false
NoUpdateOpcodes ==
  { CMD_SET_PAGE_ADDR_MODE, CMD_SET_VERTICAL_ADDR_MODE,
    CMD_SET_DISPLAY_CLOCK_DIV, CMD_SET_PRECHARGE, CMD_NOP }

\* The opcodes that reach the printf of the default case
UnknownOpcodes == Byte \ InterpretedOpcodes

\* C11 mutant: an unknown opcode clears the cursor and asks for a redraw
unknown_command_reset(s) == <<[s EXCEPT !.active_column = 0, !.active_page = 0], TRUE>>

unknown_command(s) == <<s, FALSE>>

\* C14 mutant: the page is taken from the low three bits of the opcode
page_select_low3(s, command_code) ==
  <<[s EXCEPT !.active_page = BitAnd(command_code, 7)], TRUE>>

page_select(s, command_code) ==
  <<[s EXCEPT !.active_page = BitAnd(command_code, 15)], TRUE>>

command_switch(s) ==
  LET command_code == s.current_command[0]
      param == s.current_command[1]
  IN CASE command_code = CMD_SET_CONTRAST ->
            <<[s EXCEPT !.contrast = param], TRUE>>
       [] command_code = CMD_DISPLAY_OFF ->
            <<sh1107_schedule_update([s EXCEPT !.display_on = FALSE]), FALSE>>
       [] command_code = CMD_DISPLAY_ON ->
            <<sh1107_schedule_update([s EXCEPT !.display_on = TRUE]), FALSE>>
       [] command_code = CMD_NORMAL_DISPLAY -> normal_display(s)
       [] command_code = CMD_INVERT_DISPLAY -> invert_display(s)
       [] command_code = CMD_NOP ->
            <<s, FALSE>>
       [] command_code \in {CMD_SET_PAGE_ADDR_MODE, CMD_SET_VERTICAL_ADDR_MODE} ->
            <<[s EXCEPT !.memory_mode = command_code], FALSE>>
       [] command_code = CMD_SET_DISPLAY_CLOCK_DIV ->
            <<[s EXCEPT !.clock_divider = U8(1 + BitAnd(param, 15))], FALSE>>
       [] command_code = CMD_SET_PRECHARGE ->
            <<[s EXCEPT !.phase1 = BitAnd(param, 15),
                        !.phase2 = BitAnd(ShiftRight(param, 4), 15)], FALSE>>
       [] command_code = CMD_COM_SCAN_INC ->
            <<[s EXCEPT !.reverse_rows = FALSE], TRUE>>
       [] command_code = CMD_COM_SCAN_DEC ->
            <<[s EXCEPT !.reverse_rows = TRUE], TRUE>>
       [] command_code = CMD_SEG_REMAP_OFF ->
            <<[s EXCEPT !.segment_remap = FALSE], TRUE>>
       [] command_code = CMD_SEG_REMAP_ON ->
            <<[s EXCEPT !.segment_remap = TRUE], TRUE>>
       [] command_code = CMD_SET_DISP_START_LINE ->
            <<[s EXCEPT !.start_line = param], TRUE>>
       [] command_code \in NotImplementedOpcodes -> not_implemented(s)
       [] OTHER ->
            IF command_code <= 15
            THEN <<[s EXCEPT !.active_column =
                       BitOr(BitAnd(s.active_column, 112), command_code)], FALSE>>
            ELSE IF command_code >= 16 /\ command_code <= 23
            THEN <<[s EXCEPT !.active_column =
                       BitOr(BitAnd(s.active_column, 15),
                             ShiftLeft(BitAnd(command_code, 7), 4))], FALSE>>
            ELSE IF command_code >= 176 /\ command_code <= 192
            THEN page_select(s, command_code)
            ELSE unknown_command(s)

\* C19 mutant: auto_update is ignored
sh1107_process_command_noupdate(s) ==
  [command_switch(s)[1] EXCEPT !.current_command_index = 0]

sh1107_process_command(s) ==
  LET r == command_switch(s)
      s1 == r[1]
      auto_update == r[2]
      s2 == IF auto_update /\ s1.display_on THEN sh1107_schedule_update(s1) ELSE s1
  IN [s2 EXCEPT !.current_command_index = 0]

(***************************************************************************)
(* sh1107_process_data                                                     *)
(***************************************************************************)
\* C8 mutant: segment remap is ignored
data_target_noremap(s) == s.active_page * width + s.active_column

data_target(s) ==
  LET column == IF ~s.segment_remap THEN s.active_column
                ELSE width - 1 - s.active_column
  IN s.active_page * width + column

\* C2 mutant: the column is not wrapped at the panel width
advance_column_nowrap(s) == [s EXCEPT !.active_column = U8(s.active_column + 1)]

advance_column(s) ==
  LET c == U8(s.active_column + 1)
  IN [s EXCEPT !.active_column = IF c >= width THEN 0 ELSE c]

\* C6 mutant: the page wraps without carrying into the column
advance_address_nocarry(s) ==
  IF s.memory_mode = CMD_SET_PAGE_ADDR_MODE
  THEN advance_column(s)
  ELSE [s EXCEPT !.active_page = U8(s.active_page + 1) % 16]

\* C7 mutant: page mode advances like vertical mode
advance_address_vertical(s) ==
  LET p == U8(s.active_page + 1)
  IN IF p >= 16
     THEN advance_column([s EXCEPT !.active_page = 0])
     ELSE [s EXCEPT !.active_page = p]

advance_address(s) ==
  IF s.memory_mode = CMD_SET_PAGE_ADDR_MODE
  THEN advance_column(s)
  ELSE LET p == U8(s.active_page + 1)
       IN IF p >= 16
          THEN advance_column([s EXCEPT !.active_page = 0])
          ELSE [s EXCEPT !.active_page = p]

\* A target past the end of pixels[] lands outside the array
store_pixels(s, target, value) ==
  IF target < PixelBytes THEN [s EXCEPT !.pixels[target] = value] ELSE s

sh1107_process_data(s, value) ==
  sh1107_schedule_update(advance_address(store_pixels(s, data_target(s), value)))

(***************************************************************************)
(* sh1107_i2c_connect, sh1107_i2c_write                                    *)
(***************************************************************************)
\* C17 mutant: a connect also abandons the command in progress
sh1107_i2c_connect_reset(s) ==
  [s EXCEPT !.control_byte = TRUE, !.current_command_index = 0]

sh1107_i2c_connect(s) == [s EXCEPT !.control_byte = TRUE]

decode_control(s, value) ==
  [s EXCEPT !.command_mode = (BitAnd(value, SH1107_CONTROL_DC) = 0),
            !.continuous_mode = (BitAnd(value, SH1107_CONTROL_CO) = 0),
            !.control_byte = FALSE]

\* current_command[index] = value; the record ends with current_command, so
\* a store at index >= 8 lands behind the record and changes none of its fields
store_command(s, value) ==
  IF s.current_command_index < CommandBufferSize
  THEN [s EXCEPT !.current_command[s.current_command_index] = value]
  ELSE s

\* The first byte of a command sets the expected length from the table
set_command_length(s, table_value) ==
  IF s.current_command_index = 0
  THEN [s EXCEPT !.current_command_length = U8(1 + table_value)]
  ELSE s

\* C1 mutant: a control byte is demanded after every forwarded byte
end_of_byte_always(s) == [s EXCEPT !.control_byte = TRUE]

end_of_byte(s) == IF ~s.continuous_mode THEN [s EXCEPT !.control_byte = TRUE] ELSE s

\* C16 mutant: a byte that leaves the command incomplete still ends the byte
wait_for_next_byte_control(s) == end_of_byte(s)

\* The early return while the command is incomplete
wait_for_next_byte(s) == s

assemble_command(s, value, table_value) ==
  LET s1 == set_command_length(store_command(s, value), table_value)
      s2 == [s1 EXCEPT !.current_command_index = U8(@ + 1)]
  IN IF s2.current_command_index < s2.current_command_length
     THEN wait_for_next_byte(s2)
     ELSE end_of_byte(sh1107_process_command(s2))

sh1107_i2c_write(s, value, table_value) ==
  IF s.control_byte
  THEN decode_control(s, value)
  ELSE IF s.command_mode
       THEN assemble_command(s, value, table_value)
       ELSE end_of_byte(sh1107_process_data(s, value))

\* Which path of sh1107_i2c_write a byte takes
write_path(s, t) ==
  IF s.control_byte THEN "control"
  ELSE IF ~s.command_mode THEN "data"
  ELSE IF t.current_command_index = 0 THEN "command"
  ELSE "buffered"

\* The table reads a write of value performs
table_reads(s, value) ==
  IF ~s.control_byte /\ s.command_mode /\ s.current_command_index = 0
  THEN multi_byte_commands(value)
  ELSE {0}

(***************************************************************************)
(* The callbacks as steps of the system                                    *)
(***************************************************************************)
\* The bus addresses the chip: the start of a transaction
Connect ==
  /\ chip' = sh1107_i2c_connect(chip)
  /\ last_op' = "connect"
  /\ UNCHANGED <<framebuffer, boot>>

\* The bus writes a byte; the host writes only inside a transaction
Write(value) ==
  /\ last_op # "init"
  /\ \E table_value \in table_reads(chip, value) :
        LET t == sh1107_i2c_write(chip, value, table_value)
        IN /\ chip' = t
           /\ last_op' = write_path(chip, t)
  /\ UNCHANGED <<framebuffer, boot>>

\* The one-shot timer started by sh1107_schedule_update expires
TimerFire ==
  /\ chip.update_timer
  /\ framebuffer' = sh1107_update_buffer(chip)
  /\ chip' = [chip EXCEPT !.updated = FALSE, !.update_timer = FALSE,
                          !.coalesced = chip.requests, !.requests = 0, !.arms = 0]
  /\ last_op' = "render"
  /\ UNCHANGED <<boot, sent, events>>

\* The host delivers at most max bus events; the logged forms record them
BusConnect(max) ==
  /\ events < max
  /\ Connect
  /\ events' = events + 1
  /\ UNCHANGED sent

BusWrite(bytes, max) ==
  /\ events < max
  /\ \E value \in bytes : Write(value)
  /\ events' = events + 1
  /\ UNCHANGED sent

BusConnectLogged(max) ==
  /\ events < max
  /\ Connect
  /\ events' = events + 1
  /\ sent' = Append(sent, 256)

BusWriteLogged(bytes, max) ==
  /\ events < max
  /\ \E value \in bytes : Write(value) /\ sent' = Append(sent, value)
  /\ events' = events + 1

(***************************************************************************)
(* Bus transactions run before the first state: each is a connect followed *)
(* by the bytes written, all with opcodes inside the parameter table.      *)
(***************************************************************************)
RECURSIVE WriteAll(_, _)
WriteAll(r, bytes) ==
  IF bytes = <<>> THEN r
  ELSE LET value == Head(bytes)
           table_value == CHOOSE tv \in table_reads(r.chip, value) : TRUE
           t == sh1107_i2c_write(r.chip, value, table_value)
       IN WriteAll([chip |-> t, last_op |-> write_path(r.chip, t)], Tail(bytes))

RECURSIVE Replay(_, _)
Replay(r, transactions) ==
  IF transactions = <<>> THEN r
  ELSE Replay(WriteAll([chip |-> sh1107_i2c_connect(r.chip), last_op |-> "connect"],
                       Head(transactions)),
              Tail(transactions))

\* The state chip_init and the transactions of b leave
Booted(b) == Replay([chip |-> sh1107_reset(b.image), last_op |-> "init"], b.transactions)

\* chip_init on one of the images, then one of the scripts
ChipInit(images, scripts) ==
  /\ boot \in [image : images, transactions : scripts]
  /\ chip = Booted(boot).chip
  /\ last_op = Booted(boot).last_op
  /\ framebuffer = framebuffer_init
  /\ sent = <<>>
  /\ events = 0

(***************************************************************************)
(* Spec: the device from construction under free bus traffic               *)
(***************************************************************************)
MaxEvents == 3

BusBytes == {0, 64, 128, 129, 164, 168, 175, 211, 227, 255}

HostConnect == BusConnect(MaxEvents)

HostWrite == BusWrite(BusBytes, MaxEvents)

Init == ChipInit(UninitImages, {<<>>})

Next == HostConnect \/ HostWrite \/ TimerFire

Spec == Init /\ [][Next]_vars

\* C1 (as claimed): after on_write has handled a byte that is not a control
\* byte, control-byte-pending is true exactly when continuous-mode is false.
C1_ControlBytePendingAfterEveryForward ==
  last_op \in {"buffered", "command", "data"} =>
    (chip.control_byte = ~chip.continuous_mode)

\* C1 (amended): an on_write of a byte that is not a control byte leaves
\* command-mode and continuous-mode as they were; it leaves
\* control-byte-pending true when continuous-mode is false and the byte was a
\* data byte or completed a command, and false when continuous-mode is true or
\* the byte left a command incomplete (the next byte is then taken as that
\* command's parameter, not as a control byte).
C1_Forwarded ==
  (events' = events + 1 /\ last_op' \in {"buffered", "command", "data"}) =>
    /\ chip'.command_mode = chip.command_mode
    /\ chip'.continuous_mode = chip.continuous_mode
    /\ chip'.control_byte = (last_op' # "buffered" /\ ~chip.continuous_mode)

C1_ControlByteAfterForward == [][C1_Forwarded]_vars

\* C1 witness: a non-continuous command byte left its command incomplete and
\* no control byte is pending
C1_Witness ==
  /\ last_op = "buffered"
  /\ ~chip.continuous_mode
  /\ ~chip.control_byte
  /\ chip.current_command_index = 1

\* C3 (as claimed): the command buffer write index is below the expected
\* command length, and the expected length is at most the buffer's capacity.
C3_CommandIndexBelowLength ==
  /\ chip.current_command_index < chip.current_command_length
  /\ chip.current_command_length <= CommandBufferSize

(***************************************************************************)
(* SpecCursor: data writes and cursor commands, from states with the       *)
(* cursor near the ends of its range                                       *)
(***************************************************************************)
MaxCursorEvents == 2

\* Column-low, column-high and page-select opcodes of a cursor position
ColumnLow(c) == c % 16
ColumnHigh(c) == 16 + (c \div 16)
PageSelect(p) == 176 + p

CursorPositions == {<<5, 3>>, <<127, 15>>}

\* One command transaction sets the addressing mode, the cursor and the
\* segment remap; the next opens a continuous data or command phase
CursorScripts ==
  { << <<0, mode, ColumnLow(cp[1]), ColumnHigh(cp[1]), PageSelect(cp[2]), remap>>,
       <<control>> >> :
      mode \in {CMD_SET_PAGE_ADDR_MODE, CMD_SET_VERTICAL_ADDR_MODE},
      cp \in CursorPositions,
      remap \in {CMD_SEG_REMAP_OFF, CMD_SEG_REMAP_ON},
      control \in {0, 64} }

CursorBytes == {15, 23, 90, 181}

CursorConnect == BusConnectLogged(MaxCursorEvents)

CursorWrite == BusWriteLogged(CursorBytes, MaxCursorEvents)

InitCursor == ChipInit(DarkImages, CursorScripts)

NextCursor == CursorConnect \/ CursorWrite \/ TimerFire

SpecCursor == InitCursor /\ [][NextCursor]_vars

\* C2: in every reachable state active_column is in [0, width) and
\* active_page is in [0, 16).
C2_CursorInRange ==
  /\ chip.active_column \in 0..(width - 1)
  /\ chip.active_page \in 0..15

\* C2 witness: a vertical-mode data write at page 15, column width-1 wrapped
\* both cursors to 0
C2_Witness ==
  /\ last_op = "data"
  /\ events = 1
  /\ Booted(boot).chip.active_column = width - 1
  /\ Booted(boot).chip.active_page = 15
  /\ Booted(boot).chip.memory_mode = CMD_SET_VERTICAL_ADDR_MODE
  /\ chip.active_column = 0
  /\ chip.active_page = 0

\* C7: in page mode a data write sets active_column to (active_column + 1)
\* mod width and leaves active_page unchanged, and active_page changes only
\* when a page-select command (opcode 0xB0..0xBF) is interpreted.
C7_PageModeStep ==
  chip.memory_mode = CMD_SET_PAGE_ADDR_MODE =>
    /\ (events' = events + 1 /\ last_op' = "data") =>
          /\ chip'.active_column = (chip.active_column + 1) % width
          /\ chip'.active_page = chip.active_page
    /\ chip'.active_page # chip.active_page =>
          /\ last_op' = "command"
          /\ chip'.current_command[0] \in 176..191
          /\ chip'.active_page = chip'.current_command[0] % 16

C7_PageModeAdvance == [][C7_PageModeStep]_vars

\* C7 witness: a page-mode data write at column width-1 wrapped the column
\* to 0 and left the page at 15
C7_Witness ==
  /\ last_op = "data"
  /\ events = 1
  /\ Booted(boot).chip.active_column = width - 1
  /\ Booted(boot).chip.memory_mode = CMD_SET_PAGE_ADDR_MODE
  /\ chip.memory_mode = CMD_SET_PAGE_ADDR_MODE
  /\ chip.active_column = 0
  /\ chip.active_page = 15

\* C8: a data write of byte b at page p, column c stores b in cell
\* p*width + c when segment_remap is false and in cell p*width + (width-1-c)
\* when it is true, and changes no other cell.
C8_DataStep ==
  (events' = events + 1 /\ last_op' = "data") =>
    LET b == sent'[Len(sent')]
        p == chip.active_page
        c == chip.active_column
        cell == IF chip.segment_remap THEN p * width + (width - 1 - c)
                ELSE p * width + c
    IN chip'.pixels = [chip.pixels EXCEPT ![cell] = b]

C8_DataWriteTarget == [][C8_DataStep]_vars

\* C8 witness: with segment remap on, a data write at page 3, column 5 stored
\* its byte in cell 3*width + (width-1-5) and not in cell 3*width + 5
C8_Witness ==
  /\ last_op = "data"
  /\ events = 1
  /\ chip.segment_remap
  /\ Booted(boot).chip.active_column = 5
  /\ Booted(boot).chip.active_page = 3
  /\ chip.pixels[3 * width + (width - 1 - 5)] = sent[1]
  /\ chip.pixels[3 * width + 5] # sent[1]

(***************************************************************************)
(* SpecEndToEnd: display-on, control and data bytes after a non-continuous *)
(* command-mode control byte, on a device whose segment remap is off       *)
(***************************************************************************)
MaxEndToEndEvents == 3

EndToEndBytes == {175, 192, 255}

EndToEndWrite == BusWriteLogged(EndToEndBytes, MaxEndToEndEvents)

InitEndToEnd ==
  ChipInit({u \in UninitImages : ~u.segment_remap}, {<< <<0>> >>, << <<128>> >>})

NextEndToEnd == EndToEndWrite \/ TimerFire

SpecEndToEnd == InitEndToEnd /\ [][NextEndToEnd]_vars

\* The bus traffic of the end-to-end scenario: 0x80, 0xAF, 0xC0, 0xFF
EndToEndSent ==
  /\ boot.transactions = << <<128>> >>
  /\ sent = <<175, 192, 255>>

\* The frame is fully lit at column x, rows 0..7
LitColumn(x) == \A y \in 0..7 : framebuffer[y][x]

\* C4: the redraw requests made since the last render started the timer
\* exactly once, at most one render is pending, and a render leaves the
\* frame computed from the device state at the time it fires and no render
\* pending.
C4_RenderCoalescing ==
  /\ chip.arms <= 1
  /\ chip.update_timer = chip.updated
  /\ chip.requests >= 1 => (chip.arms = 1 /\ chip.update_timer)
  /\ chip.requests = 0 => (chip.arms = 0 /\ ~chip.update_timer)
  /\ last_op = "render" =>
        /\ chip.coalesced >= 1
        /\ framebuffer = sh1107_update_buffer(chip)

\* C4 witness: one render served two requests (display on, then a data
\* write) and shows the data written by the second
C4_Witness ==
  /\ EndToEndSent
  /\ last_op = "render"
  /\ chip.coalesced = 2
  /\ LitColumn((width - x_offset) % width)

\* C5 (as claimed): after 0x80, 0xAF, 0xC0, 0xFF the display is on, cell 0
\* holds 0xFF and a render is scheduled; after the render the frame is lit at
\* rows 0..7 of column x_offset mod width.
C5_EndToEndAtOffsetColumn ==
  EndToEndSent =>
    /\ chip.display_on
    /\ chip.pixels[0] = 255
    /\ last_op = "data" => (chip.updated /\ chip.update_timer)
    /\ last_op = "render" => LitColumn(x_offset % width)

\* C5 (amended): after 0x80, 0xAF, 0xC0, 0xFF the display is on, cell 0
\* holds 0xFF and a render is scheduled; after the render the frame is lit at
\* rows 0..7 of column (width - x_offset) mod width, the output column that
\* reads memory column 0.
C5_EndToEnd ==
  EndToEndSent =>
    /\ chip.display_on
    /\ chip.pixels[0] = 255
    /\ last_op = "data" => (chip.updated /\ chip.update_timer)
    /\ last_op = "render" => LitColumn((width - x_offset) % width)

\* C5 witness: the scenario ran on zero-filled memory and its render fired
C5_Witness ==
  /\ EndToEndSent
  /\ boot.image = ZeroImage
  /\ last_op = "render"
  /\ ~chip.updated
  /\ LitColumn((width - x_offset) % width)
  /\ ~framebuffer[0][x_offset % width]

(***************************************************************************)
(* SpecVertical: a run of data writes in vertical addressing mode, from    *)
(* page 0 of every column.  The run is over before the update timer        *)
(* expires, so no render falls inside it.                                  *)
(***************************************************************************)
MaxVerticalWrites == 16

VerticalData == 60

VerticalScripts ==
  { << <<0, CMD_SET_VERTICAL_ADDR_MODE, ColumnLow(c), ColumnHigh(c)>>, <<64>> >> :
      c \in 0..(width - 1) }

VerticalWrite == BusWrite({VerticalData}, MaxVerticalWrites)

InitVertical == ChipInit({ZeroImage}, VerticalScripts)

NextVertical == VerticalWrite

SpecVertical == InitVertical /\ [][NextVertical]_vars

\* The cell the j-th (j = 0, 1, ...) write of a vertical run from page 0 of
\* column c is to target
VerticalCell(c, j) == (j % 16) * width + ((c + (j \div 16)) % width)

\* C6: in vertical mode, from active_page = 0 and active_column = c, the k-th
\* data write (k = 0..15) targets page k of column c, and after 16 writes
\* active_page is 0 again and active_column is (c + 1) mod width.
C6_VerticalWrap ==
  LET c == Booted(boot).chip.active_column
      written == {VerticalCell(c, j) : j \in 0..(events - 1)}
  IN /\ chip.active_page = events % 16
     /\ chip.active_column = (c + (events \div 16)) % width
     /\ \A i \in written : chip.pixels[i] = VerticalData
     /\ \A p \in 0..15 : \A d \in 0..1 :
           LET i == p * width + ((c + d) % width)
           IN i \notin written => chip.pixels[i] = 0

\* C6 witness: 16 writes from page 0 of the last column returned to page 0
\* and wrapped the column to 0
C6_Witness ==
  /\ events = 16
  /\ last_op = "data"
  /\ Booted(boot).chip.active_column = width - 1
  /\ chip.active_page = 0
  /\ chip.active_column = 0
  /\ chip.pixels[15 * width + (width - 1)] = VerticalData

(***************************************************************************)
(* SpecCommand: opcodes and parameters in command mode                     *)
(***************************************************************************)
MaxCommandEvents == 2

CommandBytes ==
  { 0, 127, CMD_DISPLAY_ALL_ON_RESUME, CMD_DISPLAY_ALL_ON, CMD_SET_MULTIPLEX,
    CMD_DISPLAY_ON, CMD_SET_DISPLAY_OFFSET, CMD_SET_COM_PINS,
    CMD_SET_VCOM_DESELECT }

CommandConnect == BusConnect(MaxCommandEvents)

CommandWrite == BusWrite(CommandBytes, MaxCommandEvents)

InitCommand ==
  ChipInit({u \in UninitImages : u.pix # "ones"}, {<< <<0>> >>, << <<128>> >>})

NextCommand == CommandConnect \/ CommandWrite \/ TimerFire

SpecCommand == InitCommand /\ [][NextCommand]_vars

\* The configuration registers and the addressing cursors
Registers(s) ==
  <<s.display_on, s.contrast, s.invert, s.reverse_rows, s.segment_remap,
    s.clock_divider, s.multiplex_ratio, s.phase1, s.phase2, s.memory_mode,
    s.start_line>>

Cursors(s) == <<s.active_column, s.active_page>>

\* C9: a not-implemented opcode (0xD3, 0xA8, 0xDB, 0xDA with one parameter
\* byte, 0xA4, 0xA5 with none) leaves the configuration registers, the
\* cursors and pixel memory unchanged, requests no render, and leaves the
\* command index at 0 once its last byte is in.
C9_NotImplementedStep ==
  ( /\ events' = events + 1
    /\ last_op' \in {"buffered", "command"}
    /\ chip'.current_command[0] \in NotImplementedOpcodes ) =>
    /\ Registers(chip') = Registers(chip)
    /\ Cursors(chip') = Cursors(chip)
    /\ chip'.pixels = chip.pixels
    /\ chip'.requests = chip.requests
    /\ chip'.updated = chip.updated
    /\ chip'.update_timer = chip.update_timer
    /\ last_op' = "command" =>
          /\ chip'.current_command_index = 0
          /\ chip.current_command_index =
               (IF chip'.current_command[0] \in MultiByteOpcodes THEN 1 ELSE 0)
    /\ last_op' = "buffered" =>
          /\ chip'.current_command_index = 1
          /\ chip'.current_command[0] \in MultiByteOpcodes

C9_NotImplementedNoEffect == [][C9_NotImplementedStep]_vars

\* C9 witness: set-multiplex 0xA8 with parameter 0x7F completed on a device
\* whose display is on, and no render is pending
C9_Witness ==
  /\ last_op = "command"
  /\ events = 2
  /\ chip.current_command[0] = CMD_SET_MULTIPLEX
  /\ chip.current_command[1] = 127
  /\ chip.current_command_index = 0
  /\ chip.display_on
  /\ ~chip.updated

(***************************************************************************)
(* SpecInvert: invert-display and normal-display commands on devices with  *)
(* various start lines, scan directions, display and invert settings       *)
(***************************************************************************)
MaxInvertEvents == 2

InvertScripts ==
  { << <<0, CMD_SET_DISP_START_LINE, line, scan, display, inv>>, <<0>> >> :
      line \in {3, 200},
      scan \in {CMD_COM_SCAN_INC, CMD_COM_SCAN_DEC},
      display \in {CMD_DISPLAY_OFF, CMD_DISPLAY_ON},
      inv \in {CMD_NORMAL_DISPLAY, CMD_INVERT_DISPLAY} }

InvertBytes == {CMD_NORMAL_DISPLAY, CMD_INVERT_DISPLAY}

InvertWrite == BusWriteLogged(InvertBytes, MaxInvertEvents)

InitInvert ==
  ChipInit({u \in UninitImages : u.pix # "ones"}, InvertScripts)

NextInvert == InvertWrite \/ TimerFire

SpecInvert == InitInvert /\ [][NextInvert]_vars

\* C10: rendering after the commands 0xA7, 0xA6 gives the frame that
\* rendering the pixel memory and configuration the commands found gives
\* with invert = false.
C10_InvertRoundTrip ==
  (sent = <<CMD_INVERT_DISPLAY, CMD_NORMAL_DISPLAY>> /\ last_op = "render") =>
    framebuffer = sh1107_update_buffer([Booted(boot).chip EXCEPT !.invert = FALSE])

\* C10 witness: the round trip ran on a device that was inverted, on, scanned
\* in reverse from line 200, and the frame has lit and dark pixels
C10_Witness ==
  /\ sent = <<CMD_INVERT_DISPLAY, CMD_NORMAL_DISPLAY>>
  /\ last_op = "render"
  /\ Booted(boot).chip.invert
  /\ chip.display_on
  /\ chip.reverse_rows
  /\ chip.start_line = 200
  /\ \E x \in 0..(width - 1) : framebuffer[0][x]
  /\ \E x \in 0..(width - 1) : ~framebuffer[0][x]

(***************************************************************************)
(* SpecUnknown: opcodes no case of the switch handles, in command mode, on *)
(* devices whose cursor was moved to column 21, page 3                     *)
(***************************************************************************)
MaxUnknownEvents == 3

UnknownScripts ==
  { << <<0, ColumnLow(21), ColumnHigh(21), PageSelect(3)>>, <<control>> >> :
      control \in {0, 128} }

UnknownBytes == {24, CMD_DCDC, 255}

UnknownWrite == BusWriteLogged(UnknownBytes, MaxUnknownEvents)

InitUnknown == ChipInit({u \in UninitImages : u.display_on}, UnknownScripts)

NextUnknown == UnknownWrite \/ TimerFire

SpecUnknown == InitUnknown /\ [][NextUnknown]_vars

\* C11: the byte that completes a command whose opcode no case handles
\* leaves the configuration registers, the cursors and pixel memory
\* unchanged, requests no render and leaves the command index at 0; the next
\* byte forwarded in command mode is stored as the opcode of a new command.
C11_UnknownStep ==
  /\ ( /\ events' = events + 1
       /\ last_op' = "command"
       /\ chip'.current_command[0] \in UnknownOpcodes ) =>
       /\ Registers(chip') = Registers(chip)
       /\ Cursors(chip') = Cursors(chip)
       /\ chip'.pixels = chip.pixels
       /\ chip'.requests = chip.requests
       /\ chip'.updated = chip.updated
       /\ chip'.update_timer = chip.update_timer
       /\ chip'.current_command_index = 0
  /\ ( /\ last_op = "command"
       /\ chip.current_command[0] \in UnknownOpcodes
       /\ events' = events + 1
       /\ last_op' \in {"buffered", "command"} ) =>
       /\ chip'.current_command[0] = sent'[Len(sent')]
       /\ last_op' = "buffered" => chip'.current_command_index = 1

C11_UnknownNonFatal == [][C11_UnknownStep]_vars

\* C11 witness: 0xAD with parameter 0xFF completed on a device whose display
\* is on, and the next byte 0x18 was taken as a new opcode
C11_Witness ==
  /\ sent = <<CMD_DCDC, 255, 24>>
  /\ last_op = "command"
  /\ chip.current_command[0] = 24
  /\ chip.current_command_index = 0
  /\ chip.display_on
  /\ Cursors(chip) = <<21, 3>>

(***************************************************************************)
(* The display before the first display-on command                         *)
(***************************************************************************)
\* C12 (as claimed): while no display-on command 0xAF has been written,
\* display_on is false and the frame is entirely dark.
C12_DisplayOffUntilTurnedOn ==
  (\A i \in 1..Len(sent) : sent[i] # CMD_DISPLAY_ON) =>
    /\ ~chip.display_on
    /\ \A y \in 0..(height - 1) : \A x \in 0..(width - 1) : ~framebuffer[y][x]

(***************************************************************************)
(* SpecRedraw: one opcode of every branch of the switch, in continuous     *)
(* command mode, on a device whose display is on                           *)
(***************************************************************************)
MaxRedrawEvents == 1

\* Continuous command mode, with nothing buffered or with the opcode of a
\* one-parameter command buffered
RedrawScripts ==
  { << <<0>> >> } \cup
  { << <<0, opcode>> >> :
      opcode \in { CMD_SET_CONTRAST, CMD_SET_DISPLAY_CLOCK_DIV, CMD_SET_PRECHARGE,
                   CMD_SET_DISP_START_LINE } }

RedrawBytes ==
  { CMD_SET_PAGE_ADDR_MODE, CMD_SET_VERTICAL_ADDR_MODE, CMD_SET_CONTRAST,
    CMD_SEG_REMAP_OFF, CMD_SEG_REMAP_ON, CMD_NORMAL_DISPLAY, CMD_INVERT_DISPLAY,
    181, CMD_COM_SCAN_INC, CMD_COM_SCAN_DEC, CMD_SET_DISPLAY_CLOCK_DIV,
    CMD_SET_PRECHARGE, CMD_SET_DISP_START_LINE, CMD_NOP }

RedrawWrite == BusWriteLogged(RedrawBytes, MaxRedrawEvents)

InitRedraw ==
  ChipInit({u \in UninitImages : u.display_on}, RedrawScripts)

NextRedraw == RedrawWrite \/ TimerFire

SpecRedraw == InitRedraw /\ [][NextRedraw]_vars

\* A command completes on a device whose display is on and that has no
\* render pending
C13_Completes ==
  /\ events' = events + 1
  /\ last_op' = "command"
  /\ chip.display_on
  /\ ~chip.updated

\* C13 (as claimed): every branch other than the column nibbles and the
\* not-implemented set leaves a render pending.
C13_EveryBranchStep ==
  (C13_Completes /\ chip'.current_command[0] \in AutoUpdateOpcodes \cup NoUpdateOpcodes) =>
    (chip'.updated /\ chip'.update_timer)

C13_EveryBranchMarksRedraw == [][C13_EveryBranchStep]_vars

\* C13 (amended): set contrast, segment remap off/on, normal/invert display,
\* COM scan increment/decrement, set display start line and page select
\* 0xB0..0xBF leave a render pending; set page/vertical addressing mode, set
\* clock divider, set precharge and no-op leave none pending.
C13_RedrawStep ==
  /\ (C13_Completes /\ chip'.current_command[0] \in AutoUpdateOpcodes) =>
       (chip'.updated /\ chip'.update_timer /\ chip'.requests = chip.requests + 1)
  /\ (C13_Completes /\ chip'.current_command[0] \in NoUpdateOpcodes) =>
       (~chip'.updated /\ ~chip'.update_timer /\ chip'.requests = chip.requests)

C13_RedrawMarked == [][C13_RedrawStep]_vars

\* C13 witness: set vertical addressing mode completed with the display on
\* and left no render pending
C13_Witness ==
  /\ sent = <<CMD_SET_VERTICAL_ADDR_MODE>>
  /\ last_op = "command"
  /\ chip.memory_mode = CMD_SET_VERTICAL_ADDR_MODE
  /\ chip.display_on
  /\ ~chip.updated
  /\ ~chip.update_timer

(***************************************************************************)
(* SpecPage: the opcodes 0xB0..0xC0 in continuous command mode on devices  *)
(* whose page cursor was moved to page 3                                   *)
(***************************************************************************)
MaxPageEvents == 2

PageBytes == {176, 181, 191, CMD_COM_SCAN_INC}

PageWrite == BusWriteLogged(PageBytes, MaxPageEvents)

InitPage == ChipInit(UninitImages, {<< <<0, PageSelect(3)>> >>})

NextPage == PageWrite \/ TimerFire

SpecPage == InitPage /\ [][NextPage]_vars

\* C14 (as claimed): every opcode in 0xB0..0xC0 sets active_page to the low
\* four bits of the opcode.
C14_PageSelectThroughC0Step ==
  ( /\ events' = events + 1
    /\ last_op' = "command"
    /\ chip'.current_command[0] \in 176..192 ) =>
    chip'.active_page = chip'.current_command[0] % 16

C14_PageSelectThroughC0 == [][C14_PageSelectThroughC0Step]_vars

\* C14 (amended): every opcode in 0xB0..0xBF sets active_page to the low
\* four bits of the opcode; 0xC0 is the COM scan increment command, which
\* clears reverse_rows and leaves active_page as it was.
C14_PageSelectStep ==
  /\ ( /\ events' = events + 1
       /\ last_op' = "command"
       /\ chip'.current_command[0] \in 176..191 ) =>
       /\ chip'.active_page = chip'.current_command[0] % 16
       /\ chip'.active_column = chip.active_column
  /\ ( /\ events' = events + 1
       /\ last_op' = "command"
       /\ chip'.current_command[0] = CMD_COM_SCAN_INC ) =>
       /\ chip'.active_page = chip.active_page
       /\ ~chip'.reverse_rows

C14_PageSelect == [][C14_PageSelectStep]_vars

\* C14 witness: 0xC0 was interpreted with the page cursor at 3 and left it
\* there, and 0xBF then moved it to page 15
C14_Witness ==
  /\ sent = <<CMD_COM_SCAN_INC, 191>>
  /\ last_op = "command"
  /\ Booted(boot).chip.active_page = 3
  /\ chip.active_page = 15

(***************************************************************************)
(* The parameter count looked up for an opcode                             *)
(***************************************************************************)
\* C15 (as claimed): once the opcode of a command is in, the expected length
\* is 2 for the nine opcodes of the table and 1 for every other opcode.
C15_LengthFromTable ==
  last_op \in {"buffered", "command"} =>
    chip.current_command_length =
      1 + (IF chip.current_command[0] \in MultiByteOpcodes THEN 1 ELSE 0)

(***************************************************************************)
(* A command byte that leaves its command incomplete                       *)
(***************************************************************************)
\* C16: a command-mode byte that leaves the command incomplete changes only
\* the command buffer, the command index and the expected length: the
\* configuration registers, the cursors, pixel memory, the redraw-pending
\* flag and its timer, control-byte-pending, command-mode and
\* continuous-mode are unchanged.
C16_BufferedStep ==
  (events' = events + 1 /\ last_op' = "buffered") =>
    /\ Registers(chip') = Registers(chip)
    /\ Cursors(chip') = Cursors(chip)
    /\ chip'.pixels = chip.pixels
    /\ chip'.updated = chip.updated
    /\ chip'.update_timer = chip.update_timer
    /\ chip'.requests = chip.requests
    /\ chip'.control_byte = chip.control_byte
    /\ chip'.command_mode = chip.command_mode
    /\ chip'.continuous_mode = chip.continuous_mode
    /\ chip'.current_command_index = chip.current_command_index + 1
    /\ chip'.current_command_index < chip'.current_command_length

C16_IncompleteCommandBuffered == [][C16_BufferedStep]_vars

\* C16 witness: the opcode 0xAD is buffered in non-continuous command mode,
\* its parameter is awaited, and the cursor is where it was
C16_Witness ==
  /\ sent = <<CMD_DCDC>>
  /\ last_op = "buffered"
  /\ chip.current_command[0] = CMD_DCDC
  /\ chip.current_command_index = 1
  /\ chip.current_command_length = 2
  /\ ~chip.continuous_mode
  /\ ~chip.control_byte
  /\ Cursors(chip) = <<21, 3>>

(***************************************************************************)
(* SpecReconnect: the opcode of set-contrast is buffered, then the bus     *)
(* reconnects, sends control bytes and data, and at some point a command   *)
(* byte                                                                    *)
(***************************************************************************)
MaxReconnectEvents == 6

ReconnectBytes == {0, 64}

ReconnectConnect == BusConnectLogged(MaxReconnectEvents)

ReconnectWrite == BusWriteLogged(ReconnectBytes, MaxReconnectEvents)

InitReconnect ==
  ChipInit({ZeroImage}, {<< <<0, CMD_SET_CONTRAST>> >>, << <<128, CMD_SET_CONTRAST>> >>})

NextReconnect == ReconnectConnect \/ ReconnectWrite \/ TimerFire

SpecReconnect == InitReconnect /\ [][NextReconnect]_vars

\* The opcode of a one-parameter command is buffered and its parameter is
\* awaited
InProgress(s) ==
  /\ s.current_command_index = 1
  /\ s.current_command_length = 2
  /\ s.current_command[0] \in MultiByteOpcodes

\* C17: a connect changes only control-byte-pending, to true; while a
\* parameterized command is in progress, connects, control bytes, data
\* writes and renders leave the command index, buffer and expected length
\* unchanged, and the next byte forwarded in command mode completes that
\* command as its parameter.
C17_ReconnectStep ==
  /\ last_op' = "connect" => chip' = [chip EXCEPT !.control_byte = TRUE]
  /\ (InProgress(chip) /\ last_op' \notin {"buffered", "command"}) =>
       /\ chip'.current_command_index = chip.current_command_index
       /\ chip'.current_command_length = chip.current_command_length
       /\ chip'.current_command = chip.current_command
  /\ (InProgress(chip) /\ events' = events + 1
         /\ last_op' \in {"buffered", "command"}) =>
       /\ last_op' = "command"
       /\ chip'.current_command[0] = chip.current_command[0]
       /\ chip'.current_command[1] = sent'[Len(sent')]
       /\ chip'.current_command[0] = CMD_SET_CONTRAST =>
             chip'.contrast = sent'[Len(sent')]

C17_ReconnectKeepsCommand == [][C17_ReconnectStep]_vars

\* C17 witness: after the buffered opcode the bus reconnected, selected data
\* mode, wrote a data byte, reconnected, selected command mode, and the byte
\* 0x40 then became the contrast
C17_Witness ==
  /\ sent = <<256, 64, 64, 256, 0, 64>>
  /\ last_op = "command"
  /\ chip.current_command[0] = CMD_SET_CONTRAST
  /\ chip.contrast = 64
  /\ chip.pixels[0] = 64
  /\ chip.current_command_index = 0

(***************************************************************************)
(* SpecFire: data writes and display-on commands interleaved with connects *)
(* and the timer; the host runs the callback of every timer it started     *)
(***************************************************************************)
MaxFireEvents == 3

FireBytes == {64, CMD_DISPLAY_ON}

FireConnect == BusConnect(MaxFireEvents)

FireWrite == BusWrite(FireBytes, MaxFireEvents)

InitFire == ChipInit(DarkImages, {<< <<0>> >>, << <<64>> >>})

NextFire == FireConnect \/ FireWrite \/ TimerFire

SpecFire == InitFire /\ [][NextFire]_vars /\ WF_vars(TimerFire)

\* While a render is pending no step but the render itself changes the flag
\* or the timer, and no step starts the timer again
C18_PendingStep ==
  (chip.updated /\ last_op' # "render") =>
    /\ chip'.updated
    /\ chip'.update_timer
    /\ chip'.arms = chip.arms

\* C18: whenever redraw-pending is true the render eventually runs and
\* clears it, whatever bus events come in between, and the timer is neither
\* started again nor cancelled while the render is pending.
C18_RenderAlwaysFires ==
  /\ chip.updated ~> (last_op = "render" /\ ~chip.updated /\ ~chip.update_timer)
  /\ [][C18_PendingStep]_vars
  /\ [](chip.updated => (chip.update_timer /\ chip.arms = 1))

\* C18 witness: a render fired after a request that was followed by further
\* bus events, a second request among them, before the timer expired
C18_Witness ==
  /\ last_op = "render"
  /\ events = MaxFireEvents
  /\ chip.coalesced >= 2
  /\ ~chip.updated

(***************************************************************************)
(* SpecFresh: commands that change what the frame shows, data writes,      *)
(* connects and renders, on a device that starts on and one that starts    *)
(* off, both with mixed pixel memory                                       *)
(***************************************************************************)
MaxFreshEvents == 3

FreshBytes ==
  {64, CMD_INVERT_DISPLAY, CMD_DISPLAY_OFF, CMD_DISPLAY_ON, CMD_SET_DISP_START_LINE}

FreshConnect == BusConnect(MaxFreshEvents)

FreshWrite == BusWrite(FreshBytes, MaxFreshEvents)

InitFresh == ChipInit({u \in UninitImages : u.pix = "mixed"}, {<< <<0>> >>})

NextFresh == FreshConnect \/ FreshWrite \/ TimerFire

SpecFresh == InitFresh /\ [][NextFresh]_vars

\* C19: once a render has fired, whenever no render is pending the frame is
\* the render of the current pixel memory and configuration.
C19_FrameFresh ==
  (chip.coalesced > 0 /\ ~chip.updated) => framebuffer = sh1107_update_buffer(chip)

\* C19 witness: the display was turned off and rendered dark, then the
\* invert command changed the configuration without asking for a render
C19_Witness ==
  /\ chip.coalesced > 0
  /\ ~chip.updated
  /\ last_op = "command"
  /\ chip.invert
  /\ ~chip.display_on
  /\ Booted(boot).chip.display_on

(***************************************************************************)
(* SpecBuffer: a run of 0xFF bytes in continuous command mode.  0xFF is    *)
(* above the last entry of multi_byte_commands.                            *)
(***************************************************************************)
MaxBufferEvents == 10

BufferBytes == {255}

BufferWrite == BusWrite(BufferBytes, MaxBufferEvents)

InitBuffer == ChipInit(UninitImages, {<< <<0>> >>})

NextBuffer == BufferWrite

SpecBuffer == InitBuffer /\ [][NextBuffer]_vars

\* Every index the render reads, for every start line, scan direction and
\* output coordinate, is inside pixel memory
RenderReadsInRange ==
  /\ \A start_line \in Byte : \A reverse_rows \in BOOLEAN : \A y \in 0..(height - 1) :
        VirtualY(reverse_rows, start_line, y) \in 0..(height - 1)
  /\ \A virtual_y \in 0..(height - 1) : \A x \in 0..(width - 1) :
        PixIndex(virtual_y, x) \in 0..(PixelBytes - 1)

\* C20 (as claimed): the index a data write stores at and every index the
\* render reads are inside pixel memory, and the index the next command
\* byte is stored at is inside the command buffer.
C20_AddressesInRange ==
  /\ data_target(chip) \in 0..(PixelBytes - 1)
  /\ RenderReadsInRange
  /\ chip.current_command_index \in 0..(CommandBufferSize - 1)

====
